---- MODULE Spec2Model ----
(***************************************************************************)
(* Model of the update-check provider of code-server                       *)
(* (src/node/app/update.ts): the single-flight getUpdate, the check        *)
(* operation _getUpdate with its TTL test and its catch-all fallback, the  *)
(* redirect-following requestResponse, the version comparison              *)
(* isLatestVersion and the /check and / routes of handleRequest.           *)
(*                                                                         *)
(* JavaScript runs each handler to its next await without interleaving,    *)
(* so one action is one such run: a call of a public method up to its      *)
(* first suspension, or the continuation that an I/O completion resumes.   *)
(***************************************************************************)
EXTENDS Integers, Sequences, FiniteSets, TLC

VARIABLES
    enabled,         \* UpdateHttpProvider.enabled (constructor argument)
    currentVersion,  \* the version of package.json, Undefined until it is first read
    now,             \* the clock: what Date.now() gave when it was last read
    ticks,           \* how many readings of the clock were later than the one before
    settings,        \* the update record held by the settings store, or NoUpdate
    update,          \* this.update: the in-flight promise (an index of ops), or NoOp
    ops,             \* the promises made by _getUpdate, by the call that made each
    calls,           \* the calls of getUpdate, numbered in order of invocation
    reqs,            \* the requests given to handleRequest, numbered in order of arrival
    ncalls,          \* how many calls of getUpdate were made
    compared,        \* the last evaluation of isLatestVersion, or NotCompared
    server           \* the responses the remote server may give

vars ==
    <<enabled, currentVersion, now, ticks, settings, update, ops, calls, reqs, ncalls,
      compared, server>>

---------------------------------------------------------------------------
(* Bounds of the model *)

MaxCalls == 2    \* calls of getUpdate, direct or made by handleRequest
MaxTicks == 1    \* readings of the clock that are later than the one before

(* Program constants *)

updateInterval == 1000 * 60 * 60 * 24
maxRedirects == 10

(* The clock at construction, and how much later than the reading before *)
(* a reading of the clock may be.                                         *)
Epoch == 2 * updateInterval
Elapsed == {0, updateInterval}

---------------------------------------------------------------------------
(* Values *)

NoOp == 0
NoStatus == -1                 \* no response yet
None == [x \in {} |-> NoOp]                  \* the function with no argument
Put(f, k, v) == [x \in DOMAIN f \cup {k} |-> IF x = k THEN v ELSE f[x]]
Only(f, S) == [x \in DOMAIN f \cap S |-> f[x]]
Undefined == "(undefined)"     \* the JavaScript value undefined, where a string is expected
NoUpdate == [checked |-> -1, version |-> Undefined]   \* no update record (undefined)

(* Version strings: the running version and the names a release may carry. *)
VersionStrings ==
    {"1.2.0", "v1.2.0", "1.2.0+build", "1.2.0-beta", "1.3.0", "1.3.0-beta", "1.10.0",
     "0.9.9", "1.2", "unknown", "not-a-version"}

(* Status codes a response may carry; 0 stands for a missing statusCode. *)
Statuses == {0, 199, 200, 299, 301, 399, 400, 404}

(* Every response head: a status code, with or without a location header. *)
Responses == [status : Statuses, location : BOOLEAN]

(* A server that answers at once, well or badly, and never redirects. *)
Plain == {[status |-> 200, location |-> FALSE], [status |-> 404, location |-> FALSE]}

(* Names of the latest release the server may send (Undefined: no name field). *)
PayloadNames == {"1.3.0", Undefined}

(* Bodies the server may send: text that is no JSON, the JSON value null,  *)
(* or a JSON object with or without a name.                                *)
Payloads ==
    {[json |-> "malformed", name |-> Undefined], [json |-> "null", name |-> Undefined]}
        \cup {[json |-> "object", name |-> n] : n \in PayloadNames}

---------------------------------------------------------------------------
(* semver.lt, as far as the version strings of the model go *)

Invalid == [valid |-> FALSE, major |-> 0, minor |-> 0, patch |-> 0, pre |-> 0]

SemVer(ma, mi, pa, pr) ==
    [valid |-> TRUE, major |-> ma, minor |-> mi, patch |-> pa, pre |-> pr]

(* new SemVer(s): a leading "v" is allowed, build metadata is dropped, a   *)
(* prerelease tag is kept (pre = 1; 0 is no tag); anything else throws.    *)
SemverParse(s) ==
    CASE s = "1.2.0" -> SemVer(1, 2, 0, 0)
      [] s = "v1.2.0" -> SemVer(1, 2, 0, 0)
      [] s = "1.2.0+build" -> SemVer(1, 2, 0, 0)
      [] s = "1.2.0-beta" -> SemVer(1, 2, 0, 1)
      [] s = "1.3.0" -> SemVer(1, 3, 0, 0)
      [] s = "1.3.0-beta" -> SemVer(1, 3, 0, 1)
      [] s = "0.9.9" -> SemVer(0, 9, 9, 0)
      [] s = "1.10.0" -> SemVer(1, 10, 0, 0)
      [] OTHER -> Invalid

(* SemVer.compare: main version first, then a version with a prerelease    *)
(* tag is below the same version without one.                              *)
SemverCompare(a, b) ==
    IF a.major # b.major THEN (IF a.major < b.major THEN -1 ELSE 1)
    ELSE IF a.minor # b.minor THEN (IF a.minor < b.minor THEN -1 ELSE 1)
    ELSE IF a.patch # b.patch THEN (IF a.patch < b.patch THEN -1 ELSE 1)
    ELSE IF a.pre = b.pre THEN 0
    ELSE IF a.pre = 0 THEN 1
    ELSE IF b.pre = 0 THEN -1
    ELSE IF a.pre < b.pre THEN -1 ELSE 1

(* semver.lt(a, b) throws when either string is no version. *)
SemverLtThrows(a, b) == ~SemverParse(a).valid \/ ~SemverParse(b).valid

SemverLt(a, b) == SemverCompare(SemverParse(a), SemverParse(b)) < 0

IsLatestRethrow(latest, version) ==
    IF SemverLtThrows(latest.version, version) THEN FALSE
    ELSE latest.version = version \/ SemverLt(latest.version, version)

(* isLatestVersion(latest), with this.currentVersion as version *)
IsLatestVersion(latest, version) ==
    IF latest.version = version THEN TRUE
    ELSE IF SemverLtThrows(latest.version, version) THEN TRUE
    ELSE SemverLt(latest.version, version)

---------------------------------------------------------------------------
(* The check operation: one promise made by _getUpdate *)

(* pc is where the operation is suspended:                                 *)
(*   "read"     awaiting settings.read()                                   *)
(*   "request"  awaiting the response to the GET it issued                 *)
(*   "body"     awaiting the end of the accepted response's body           *)
(*   "write"    awaiting settings.write()                                  *)
(*   "resolved" fulfilled; the reaction that clears this.update is queued  *)
(*   "cleared"  that reaction has run; the awaiting callers may resume     *)
(*   "rejected" rejected (no path of _getUpdate does this)                 *)
(* The other fields are the locals of _getUpdate and requestResponse and   *)
(* a record of what the operation did.                                     *)
NewOp(force, t, s) ==
    [pc |-> "start", force |-> force, now |-> t,
     read |-> NoUpdate,        \* what settings.read() gave (line 122)
     fetches |-> 0,            \* calls of this.request(this.latestUrl)
     redirects |-> 0,          \* requestResponse's counter
     requests |-> 0,           \* GETs issued
     status |-> NoStatus,      \* the response that ended the fetch: status code
     location |-> FALSE,       \*   and whether it had a location header
     accepted |-> FALSE,       \* requestResponse resolved with that response
     update |-> NoUpdate,      \* the record built at line 126
     writes |-> 0,             \* settings.write() calls that completed
     error |-> "",             \* what was thrown inside the try block
     code |-> 0,               \* the status code in the message of that error
     failed |-> FALSE,         \* the catch block ran
     result |-> NoUpdate,      \* what the promise was fulfilled with
     before |-> s]             \* the stored record when the operation began

(* The fallback record of the catch block. *)
Fallback(t) == [checked |-> t, version |-> "unknown"]

(* A catch block that hands the error on instead of recovering. *)
CatchRethrow(o, err) == [o EXCEPT !.pc = "rejected", !.error = err, !.failed = TRUE]

(* catch (error) { ...; return {checked: now, version: "unknown"} } *)
Catch(o, err) ==
    [o EXCEPT !.pc = "resolved", !.error = err, !.failed = TRUE,
              !.result = Fallback(o.now)]

(* return update *)
Return(o, upd) == [o EXCEPT !.pc = "resolved", !.result = upd]

(* request(uri) inside requestResponse: one GET goes out. *)
IssueRequest(o) == [o EXCEPT !.pc = "request", !.requests = @ + 1]

(* await this.request(this.latestUrl): requestResponse starts and issues  *)
(* its first GET.                                                         *)
Fetch(o) == IssueRequest([o EXCEPT !.fetches = @ + 1])

(* Once the promise has settled and the marker is cleared, the locals of  *)
(* the operation are gone: what stays is what the promise carries and     *)
(* what the operation did.                                                *)
Settled(o) ==
    [o EXCEPT !.pc = "cleared", !.read = NoUpdate, !.redirects = 0, !.requests = 0,
              !.status = NoStatus, !.location = FALSE, !.accepted = FALSE,
              !.update = NoUpdate, !.error = "", !.code = 0, !.before = NoUpdate]

(* The test without the age: any stored record is served. *)
NeedsFetchNoRecord(upd, t) == upd = NoUpdate

(* The test with <= in place of <. *)
NeedsFetchAtTtl(upd, t) == upd = NoUpdate \/ upd.checked + updateInterval <= t

NeedsFetchFlipped(upd, t) == upd = NoUpdate \/ upd.checked + updateInterval > t

(* !update || update.checked + this.updateInterval < now *)
NeedsFetch(upd, t) == upd = NoUpdate \/ upd.checked + updateInterval < t

(* The run of _getUpdate up to its first await: a forced check skips the   *)
(* read and goes straight to the request.                                  *)
BeginOp(force, t, s) ==
    IF force THEN Fetch(NewOp(force, t, s))
    ELSE [NewOp(force, t, s) EXCEPT !.pc = "read"]

(* The write placed after the if block: a record served from the store   *)
(* is written back.                                                      *)
AfterReadRewrites(o, upd) ==
    IF NeedsFetch(upd, o.now)
    THEN Fetch([o EXCEPT !.read = upd])
    ELSE [o EXCEPT !.read = upd, !.pc = "write", !.update = upd]

(* The rest of the try block once settings.read() has given upd. *)
AfterRead(o, upd) ==
    IF NeedsFetch(upd, o.now)
    THEN Fetch([o EXCEPT !.read = upd])
    ELSE Return([o EXCEPT !.read = upd], upd)

---------------------------------------------------------------------------
(* requestResponse: the callback of httpx.get *)

IsRedirect(status, location) ==
    status # 0 /\ status >= 300 /\ status < 400 /\ location

IsBadStatusOffByOne(status) == status = 0 \/ status < 200 \/ status > 400

(* !response.statusCode || response.statusCode < 200 || response.statusCode >= 400 *)
IsBadStatus(status) == status = 0 \/ status < 200 \/ status >= 400

TooManyRedirectsOffByOne(redirects) == redirects >= maxRedirects

(* redirects > maxRedirects *)
TooManyRedirects(redirects) == redirects > maxRedirects

(* What the callback of httpx.get does with a response: it follows a     *)
(* redirect (the response is destroyed), unless that is one too many,    *)
(* rejects a bad status with `${uri}: ${response.statusCode || "500"}`,  *)
(* and resolves with any other response.                                 *)
OnResponse(o, status, location) ==
    LET seen == [o EXCEPT !.status = status, !.location = location]
    IN  IF IsRedirect(status, location)
        THEN IF TooManyRedirects(o.redirects + 1)
             THEN Catch([seen EXCEPT !.redirects = @ + 1], "max redirects")
             ELSE IssueRequest([o EXCEPT !.redirects = @ + 1])
        ELSE IF IsBadStatus(status)
        THEN Catch([seen EXCEPT !.code = IF status = 0 THEN 500 ELSE status], "status")
        ELSE [seen EXCEPT !.pc = "body", !.accepted = TRUE]

(* JSON.parse(buffer.toString()) and data.name: text that is no JSON      *)
(* throws, and so does reading the name of null.                          *)
ParseThrows(payload) == payload.json # "object"

(* The record built without the start time of the operation. *)
OnBodyUnstamped(o, payload) ==
    IF ParseThrows(payload) THEN Catch(o, "parse")
    ELSE [o EXCEPT !.pc = "write",
                   !.update = [checked |-> 0, version |-> payload.name]]

OnBodyStoresFallback(o, payload) ==
    IF ParseThrows(payload)
    THEN [o EXCEPT !.pc = "write", !.error = "parse", !.failed = TRUE,
                   !.update = Fallback(o.now)]
    ELSE [o EXCEPT !.pc = "write",
                   !.update = [checked |-> o.now, version |-> payload.name]]

(* The try block from the end of the body to the call of settings.write. *)
OnBody(o, payload) ==
    IF ParseThrows(payload) THEN Catch(o, "parse")
    ELSE [o EXCEPT !.pc = "write",
                   !.update = [checked |-> o.now, version |-> payload.name]]

---------------------------------------------------------------------------
(* getUpdate *)

StartsNewOpAlways(marker) == TRUE

(* if (!this.update) *)
StartsNewOp(marker) == marker = NoOp

(* A call of getUpdate: who made it ("api": a direct call, "check": the    *)
(* call of the /check route, "root": getRoot, "html": getUpdateHtml) and   *)
(* for which request, what this.update was when it was made, the promise   *)
(* it returned (op) and how that settled for the caller.                   *)
NewCall(from, req, force, marker, op) ==
    [from |-> from, req |-> req, force |-> force, marker |-> marker, op |-> op,
     pc |-> "await", result |-> NoUpdate]

(* The calls still awaiting their promise, and the operations that are    *)
(* not settled or are still awaited. The model keeps the calls that       *)
(* returned and the operations that settled only until the next           *)
(* operation starts.                                                      *)
Awaiting(cs) == {c \in DOMAIN cs : cs[c].pc = "await"}

Live(os, cs) ==
    {i \in DOMAIN os : os[i].pc # "cleared" \/ \E c \in Awaiting(cs) : cs[c].op = i}

(* getUpdate without the test of this.enabled. *)
GetUpdateUnguarded(st, t, from, req, force) ==
    LET id == st.ncalls + 1
    IN  IF StartsNewOp(st.update)
        THEN [update |-> id,
              ops |-> Put(Only(st.ops, Live(st.ops, st.calls)), id,
                          BeginOp(force, t, settings)),
              calls |-> Put(Only(st.calls, Awaiting(st.calls)), id,
                            NewCall(from, req, force, st.update, id)),
              ncalls |-> id]
        ELSE [st EXCEPT !.ncalls = id,
                        !.calls = Put(@, id, NewCall(from, req, force, st.update,
                                                      st.update))]

(* getUpdate(force) called at time t in the state st = [update, ops,      *)
(* calls, ncalls]: the run up to "return this.update". Disabled, it       *)
(* throws. The promise of a new operation is named after the call that    *)
(* starts it.                                                             *)
GetUpdate(st, t, from, req, force) ==
    LET id == st.ncalls + 1
    IN  IF ~enabled
        THEN [st EXCEPT !.ncalls = id,
                        !.calls = Put(@, id, [NewCall(from, req, force, st.update, NoOp)
                                                 EXCEPT !.pc = "rejected"])]
        ELSE IF StartsNewOp(st.update)
        THEN [update |-> id,
              ops |-> Put(Only(st.ops, Live(st.ops, st.calls)), id,
                          BeginOp(force, t, settings)),
              calls |-> Put(Only(st.calls, Awaiting(st.calls)), id,
                            NewCall(from, req, force, st.update, id)),
              ncalls |-> id]
        ELSE [st EXCEPT !.ncalls = id,
                        !.calls = Put(@, id, NewCall(from, req, force, st.update,
                                                      st.update))]

Here == [update |-> update, ops |-> ops, calls |-> calls, ncalls |-> ncalls]

Become(st) ==
    /\ update' = st.update
    /\ ops' = st.ops
    /\ calls' = st.calls
    /\ ncalls' = st.ncalls

(* The event loop: the reactions of a settled promise (the clearing of   *)
(* the marker, then the callers in the order they called) are microtasks, *)
(* and they all run before the next I/O callback does. Draining says that *)
(* such reactions are queued.                                             *)
Resumable(c) ==
    /\ calls[c].pc = "await"
    /\ calls[c].op \in DOMAIN ops
    /\ ops[calls[c].op].pc \in {"cleared", "rejected"}

Draining ==
    \/ \E i \in DOMAIN ops : ops[i].pc = "resolved"
    \/ \E c \in DOMAIN calls : Resumable(c)

(* The clock is read by _getUpdate alone (const now = Date.now()), so it *)
(* advances, by d, where a handler makes getUpdate start an operation.   *)
ReadsClock == enabled /\ StartsNewOp(update)

Advance(d, reads) ==
    /\ d = 0 \/ (reads /\ ticks < MaxTicks)
    /\ now' = now + d
    /\ ticks' = IF d = 0 THEN ticks ELSE ticks + 1

(* Requests that have yet to call getUpdate (from getUpdateHtml). *)
Loading == {r \in DOMAIN reqs : reqs[r].pc = "resource"}

(* A direct call of the public method getUpdate. *)
Call(force, d) ==
    /\ ncalls + Cardinality(Loading) < MaxCalls
    /\ Advance(d, ReadsClock)
    /\ Become(GetUpdate(Here, now', "api", 0, force))
    /\ UNCHANGED <<enabled, currentVersion, server, settings, reqs, compared>>

---------------------------------------------------------------------------
(* The steps of a check operation *)

(* settings.read() settles. *)
SettingsRead(i, ok) ==
    /\ ~Draining
    /\ ops[i].pc = "read"
    /\ ops' = [ops EXCEPT ![i] = IF ok THEN AfterRead(@, settings) ELSE Catch(@, "read")]
    /\ UNCHANGED <<enabled, currentVersion, server, now, ticks, settings, update, calls,
                   ncalls, reqs, compared>>

(* A response arrives. *)
Response(i, status, location) ==
    /\ ~Draining
    /\ ops[i].pc = "request"
    /\ ops' = [ops EXCEPT ![i] = OnResponse(@, status, location)]
    /\ UNCHANGED <<enabled, currentVersion, server, now, ticks, settings, update, calls,
                   ncalls, reqs, compared>>

(* client.on("error", reject) *)
TransportError(i) ==
    /\ ~Draining
    /\ ops[i].pc = "request"
    /\ ops' = [ops EXCEPT ![i] = Catch(@, "transport")]
    /\ UNCHANGED <<enabled, currentVersion, server, now, ticks, settings, update, calls,
                   ncalls, reqs, compared>>

(* response.on("end", ...): the body is complete. *)
BodyEnd(i, payload) ==
    /\ ~Draining
    /\ ops[i].pc = "body"
    /\ ops' = [ops EXCEPT ![i] = OnBody(@, payload)]
    /\ UNCHANGED <<enabled, currentVersion, server, now, ticks, settings, update, calls,
                   ncalls, reqs, compared>>

(* response.on("error", reject) *)
BodyError(i) ==
    /\ ~Draining
    /\ ops[i].pc = "body"
    /\ ops' = [ops EXCEPT ![i] = Catch(@, "stream")]
    /\ UNCHANGED <<enabled, currentVersion, server, now, ticks, settings, update, calls,
                   ncalls, reqs, compared>>

(* The settings store is an injected collaborator (SettingsProvider); its *)
(* code is not part of update.ts. What it holds after write({ update }):   *)
(* the update key is replaced when the write completes, and a write that   *)
(* throws has persisted nothing.                                           *)
StoreAfterWrite(store, upd) == upd

StoreAfterFailedWrite(store, upd) == store

(* settings.write({ update }) completes: the record is stored and returned. *)
SettingsWritten(i) ==
    /\ ~Draining
    /\ ops[i].pc = "write"
    /\ settings' = StoreAfterWrite(settings, ops[i].update)
    /\ ops' = [ops EXCEPT ![i] = Return([@ EXCEPT !.writes = @ + 1], @.update)]
    /\ UNCHANGED <<enabled, currentVersion, server, now, ticks, update, calls, ncalls, reqs,
                   compared>>

(* settings.write({ update }) throws: the store keeps what it held. *)
SettingsWriteFails(i) ==
    /\ ~Draining
    /\ ops[i].pc = "write"
    /\ settings' = StoreAfterFailedWrite(settings, ops[i].update)
    /\ ops' = [ops EXCEPT ![i] = Catch(@, "write")]
    /\ UNCHANGED <<enabled, currentVersion, server, now, ticks, update, calls, ncalls, reqs,
                   compared>>

(* The reaction runs and leaves this.update as it is. *)
ClearMarkerKeeps(i) ==
    /\ ops[i].pc = "resolved"
    /\ ops' = [ops EXCEPT ![i] = Settled(@)]
    /\ UNCHANGED <<enabled, currentVersion, server, now, ticks, settings, update, calls,
                   ncalls, reqs, compared>>

(* this.update.then(() => (this.update = undefined)): the first reaction  *)
(* of the promise, registered before any caller could await it.           *)
ClearMarker(i) ==
    /\ ops[i].pc = "resolved"
    /\ update' = NoOp
    /\ ops' = [ops EXCEPT ![i] = Settled(@)]
    /\ UNCHANGED <<enabled, currentVersion, server, now, ticks, settings, calls, ncalls, reqs,
                   compared>>

---------------------------------------------------------------------------
(* handleRequest, getRoot and getUpdateHtml *)

NoResponse == [type |-> "none", update |-> NoUpdate, isLatest |-> FALSE, text |-> ""]

(* A request, with what handleRequest looks at: query.to on the /check   *)
(* route only, the content type only where getRoot is reached.           *)
NewReq(base, to, json) ==
    [base |-> base, to |-> base = "/check" /\ to,
     json |-> json /\ base \in {"/check", "/"} /\ ~(base = "/check" /\ to),
     pc |-> "start", response |-> NoResponse]

Answer(rq, response) == [rq EXCEPT !.pc = "done", !.response = response]

NotFound == [NoResponse EXCEPT !.type = "error", !.text = "Not found"]
Redirect == [NoResponse EXCEPT !.type = "redirect"]
DisabledJson == [NoResponse EXCEPT !.type = "json", !.isLatest = TRUE]
DisabledHtml == [NoResponse EXCEPT !.type = "html", !.text = "Updates are disabled"]
Failed == [NoResponse EXCEPT !.type = "error", !.text = "rejected"]

(* The versions the running build may have: the getter currentVersion   *)
(* reads package.json when it is first used.                             *)
RunningVersions == {"1.2.0", "not-a-version"}

(* { content: { ...update, isLatest: this.isLatestVersion(update) } } *)
StatusJson(upd, version) ==
    [type |-> "json", update |-> upd, isLatest |-> IsLatestVersion(upd, version),
     text |-> ""]

(* getUpdateHtml once getUpdate() has given upd *)
StatusHtml(upd, version) ==
    [type |-> "html", update |-> upd, isLatest |-> IsLatestVersion(upd, version),
     text |-> IF IsLatestVersion(upd, version) THEN "No update available"
              ELSE "Update to"]

Bases == {"/check", "/", "/other"}

(* The requests not yet answered; the model keeps an answered request    *)
(* until the next one arrives.                                           *)
Unanswered == {r \in DOMAIN reqs : reqs[r].pc # "done"}

(* How many calls of getUpdate a request makes at most. *)
CallsOf(base, to) ==
    IF base = "/check" THEN (IF to THEN 1 ELSE 2) ELSE IF base = "/" THEN 1 ELSE 0

CheckForceOmitted == FALSE

(* The argument of the call the /check route makes: this.getUpdate(true). *)
CheckForce == TRUE

(* handleRequest(route, request) up to its first await. base is          *)
(* route.base, to is whether route.query.to is given, json whether the   *)
(* content-type of the request is application/json.                      *)
HandleRequest(base, to, json, d) ==
    /\ ~Draining
    /\ Advance(d, ReadsClock /\ (base = "/check" \/ (base = "/" /\ json)))
    /\ ncalls + Cardinality(Loading) + CallsOf(base, to) <= MaxCalls
    /\ LET r == CHOOSE n \in 1..(Cardinality(Unanswered) + 1) : n \notin Unanswered
           rq == NewReq(base, to, json)
           pending == Only(reqs, Unanswered)
           checked == IF base = "/check"
                      THEN GetUpdate(Here, now', "check", r, CheckForce)
                      ELSE Here
       IN  IF base \notin {"/check", "/"}
           THEN /\ reqs' = Put(pending, r, Answer(rq, NotFound))
                /\ UNCHANGED <<update, ops, calls, ncalls>>
           ELSE IF base = "/check" /\ to
           THEN /\ reqs' = Put(pending, r, Answer(rq, Redirect))
                /\ Become(checked)
           ELSE IF ~json
           THEN /\ reqs' = Put(pending, r, [rq EXCEPT !.pc = "resource"])
                /\ Become(checked)
           ELSE IF ~enabled
           THEN /\ reqs' = Put(pending, r, Answer(rq, DisabledJson))
                /\ Become(checked)
           ELSE /\ reqs' = Put(pending, r, [rq EXCEPT !.pc = "await"])
                /\ Become(GetUpdate(checked, now', "root", r, FALSE))
    /\ UNCHANGED <<enabled, currentVersion, server, settings, compared>>

(* getRoot after "await this.getUtf8Resource(...)": getUpdateHtml up to  *)
(* its await.                                                            *)
ResourceLoaded(r, d) ==
    /\ ~Draining
    /\ Advance(d, ReadsClock)
    /\ reqs[r].pc = "resource"
    /\ IF ~enabled
       THEN /\ reqs' = [reqs EXCEPT ![r] = Answer(@, DisabledHtml)]
            /\ UNCHANGED <<update, ops, calls, ncalls>>
       ELSE /\ reqs' = [reqs EXCEPT ![r].pc = "await"]
            /\ Become(GetUpdate(Here, now', "html", r, FALSE))
    /\ UNCHANGED <<enabled, currentVersion, server, settings, compared>>

(* A caller awaiting the promise of getUpdate resumes once the promise   *)
(* has settled and its first reaction has run, after the callers that    *)
(* called before it.                                                     *)
Resume(c) ==
    /\ Resumable(c)
    /\ \A d \in DOMAIN calls : Resumable(d) /\ calls[d].op = calls[c].op => c <= d
    /\ currentVersion' \in
           IF calls[c].from \in {"root", "html"} /\ currentVersion = Undefined
           THEN RunningVersions ELSE {currentVersion}
    /\ LET o == ops[calls[c].op]
           ok == o.pc = "cleared"
           r == calls[c].req
       IN  /\ calls' = [calls EXCEPT ![c].pc = IF ok THEN "done" ELSE "rejected",
                                     ![c].result = o.result]
           /\ reqs' = IF calls[c].from = "root"
                      THEN [reqs EXCEPT ![r] =
                               Answer(@, IF ok THEN StatusJson(o.result, currentVersion')
                                         ELSE Failed)]
                      ELSE IF calls[c].from = "html"
                      THEN [reqs EXCEPT ![r] =
                               Answer(@, IF ok THEN StatusHtml(o.result, currentVersion')
                                         ELSE Failed)]
                      ELSE reqs
    /\ UNCHANGED <<enabled, server, now, ticks, settings, update, ops, ncalls, compared>>

---------------------------------------------------------------------------
(* The provider and its environment *)

NotCompared == [done |-> FALSE, latest |-> Undefined, version |-> Undefined,
                isLatest |-> FALSE]

(* What the settings store may hold when the provider is constructed: no  *)
(* record, or one checked about one updateInterval ago.                   *)
StoredAtStart ==
    {NoUpdate} \cup
        {[checked |-> Epoch - updateInterval + d, version |-> "1.2.0"] : d \in {-1, 0, 1}}

Init ==
    /\ enabled \in BOOLEAN
    /\ currentVersion = Undefined
    /\ now = Epoch
    /\ ticks = 0
    /\ settings \in StoredAtStart
    /\ update = NoOp
    /\ ops = None
    /\ calls = None
    /\ reqs = None
    /\ ncalls = 0
    /\ compared = NotCompared
    /\ server = Plain

Next ==
    \/ \E force \in BOOLEAN, d \in Elapsed : Call(force, d)
    \/ \E base \in Bases, to \in BOOLEAN, json \in BOOLEAN, d \in Elapsed :
           HandleRequest(base, to, json, d)
    \/ \E r \in DOMAIN reqs, d \in Elapsed : ResourceLoaded(r, d)
    \/ \E c \in DOMAIN calls : Resume(c)
    \/ \E i \in DOMAIN ops, ok \in BOOLEAN : SettingsRead(i, ok)
    \/ \E i \in DOMAIN ops, response \in server :
           Response(i, response.status, response.location)
    \/ \E i \in DOMAIN ops : TransportError(i)
    \/ \E i \in DOMAIN ops, payload \in Payloads : BodyEnd(i, payload)
    \/ \E i \in DOMAIN ops : BodyError(i)
    \/ \E i \in DOMAIN ops : SettingsWritten(i)
    \/ \E i \in DOMAIN ops : SettingsWriteFails(i)
    \/ \E i \in DOMAIN ops : ClearMarker(i)

Spec == Init /\ [][Next]_vars

---------------------------------------------------------------------------
(* The provider when every await settles: the event loop runs every      *)
(* queued reaction (the clearing of the marker, the resumption of the     *)
(* callers), and every settings read, GET, body and settings write that   *)
(* an operation waits for ends, well or badly.                            *)

Settles(i) ==
    \/ \E ok \in BOOLEAN : SettingsRead(i, ok)
    \/ \E response \in server : Response(i, response.status, response.location)
    \/ TransportError(i)
    \/ \E payload \in Payloads : BodyEnd(i, payload)
    \/ BodyError(i)
    \/ SettingsWritten(i)
    \/ SettingsWriteFails(i)

Fairness ==
    /\ WF_vars(\E i \in DOMAIN ops : ClearMarker(i))
    /\ WF_vars(\E c \in DOMAIN calls : Resume(c))
    /\ WF_vars(\E i \in DOMAIN ops : Settles(i))

SpecLive == Init /\ [][Next]_vars /\ Fairness

---------------------------------------------------------------------------
(* The fetch client on its own: updates enabled, an empty settings store, *)
(* and a server that may answer with any response head.                   *)

InitFetch ==
    /\ enabled = TRUE
    /\ currentVersion = Undefined
    /\ now = Epoch
    /\ ticks = 0
    /\ settings = NoUpdate
    /\ update = NoOp
    /\ ops = None
    /\ calls = None
    /\ reqs = None
    /\ ncalls = 0
    /\ compared = NotCompared
    /\ server = Responses

(* Direct calls of getUpdate and the steps of the operations they start. *)
NextFetch ==
    \/ \E force \in BOOLEAN : Call(force, 0)
    \/ \E c \in DOMAIN calls : Resume(c)
    \/ \E i \in DOMAIN ops, ok \in BOOLEAN : SettingsRead(i, ok)
    \/ \E i \in DOMAIN ops, response \in server :
           Response(i, response.status, response.location)
    \/ \E i \in DOMAIN ops : TransportError(i)
    \/ \E i \in DOMAIN ops, payload \in Payloads : BodyEnd(i, payload)
    \/ \E i \in DOMAIN ops : BodyError(i)
    \/ \E i \in DOMAIN ops : SettingsWritten(i)
    \/ \E i \in DOMAIN ops : SettingsWriteFails(i)
    \/ \E i \in DOMAIN ops : ClearMarker(i)

SpecFetch == InitFetch /\ [][NextFetch]_vars

---------------------------------------------------------------------------
(* The version comparison on its own: isLatestVersion applied to every    *)
(* pair of version strings.                                               *)

InitCompare ==
    /\ enabled = TRUE
    /\ currentVersion \in VersionStrings
    /\ now = Epoch
    /\ ticks = 0
    /\ settings = NoUpdate
    /\ update = NoOp
    /\ ops = None
    /\ calls = None
    /\ reqs = None
    /\ ncalls = 0
    /\ compared = NotCompared
    /\ server = Plain

(* this.isLatestVersion(latest) *)
Compare(version) ==
    /\ compared' = [done |-> TRUE, latest |-> version, version |-> currentVersion,
                    isLatest |-> IsLatestVersion([checked |-> now, version |-> version],
                                                 currentVersion)]
    /\ UNCHANGED <<enabled, currentVersion, server, now, ticks, settings, update, ops,
                   calls, ncalls, reqs>>

NextCompare == \E version \in VersionStrings \cup {Undefined} : Compare(version)

SpecCompare == InitCompare /\ [][NextCompare]_vars

---------------------------------------------------------------------------
(* Properties *)

InFlight == {i \in DOMAIN ops : ops[i].pc \in {"read", "request", "body", "write"}}

Done == {c \in DOMAIN calls : calls[c].pc = "done"}

(* C1: with updates enabled at most one check operation is in flight and  *)
(* it is the one the marker names; no operation fetches twice; a call     *)
(* made while the marker is present starts no operation and returns the   *)
(* marked promise; and every call that has resumed got the record of the  *)
(* operation it awaited, so that the calls sharing an operation got the   *)
(* same record.                                                           *)
SingleFlight ==
    /\ Cardinality(InFlight) <= 1
    /\ \A i \in DOMAIN ops :
          /\ ops[i].pc \in {"read", "request", "body", "write", "resolved"} => update = i
          /\ ops[i].fetches <= 1
          /\ ~ops[i].force /\ ops[i].pc \in {"request", "body", "write"}
                => ops[i].fetches = 1
    /\ \A c \in DOMAIN calls :
          /\ enabled /\ calls[c].marker # NoOp
                => calls[c].op = calls[c].marker /\ c \notin DOMAIN ops
          /\ c \in Done
                => /\ calls[c].op \in DOMAIN ops
                   /\ calls[c].result = ops[calls[c].op].result
    /\ \A c \in Done, d \in Done :
          calls[c].op = calls[d].op => calls[c].result = calls[d].result

(* Two getUpdate(false) calls, the second made while the first one's      *)
(* operation was in flight, have both resumed with the record of the one  *)
(* fetch.                                                                 *)
SingleFlightWitness ==
    \E c \in Done, d \in Done :
        /\ c < d
        /\ ~calls[c].force /\ ~calls[d].force
        /\ calls[c].marker = NoOp /\ calls[d].marker = c
        /\ calls[c].op = c /\ calls[d].op = c
        /\ ops[c].fetches = 1
        /\ calls[c].result = [checked |-> Epoch, version |-> "1.3.0"]
        /\ calls[d].result = calls[c].result

(* C2: every getUpdate(true) call that has resumed got the result of an   *)
(* operation that attempted a network fetch.                              *)
ForcedCallFetched ==
    \A c \in Done : calls[c].force => ops[calls[c].op].fetches >= 1

(* C3: a non-forced operation whose settings read gave a record younger   *)
(* than updateInterval returns that record, with no fetch and no write;   *)
(* one whose read gave no record, or a record older than updateInterval,  *)
(* fetches.                                                               *)
TtlRespected ==
    \A i \in DOMAIN ops :
        LET o == ops[i]
        IN  ~o.force /\ o.pc \in {"request", "body", "write", "resolved"}
                     /\ o.error # "read"
            => /\ o.read # NoUpdate /\ o.now - o.read.checked < 86400000
                  => /\ o.pc = "resolved"
                     /\ o.result = o.read
                     /\ o.fetches = 0 /\ o.requests = 0
                     /\ o.writes = 0 /\ settings = o.before
               /\ o.read = NoUpdate \/ o.now - o.read.checked > 86400000
                  => o.fetches = 1 /\ o.requests >= 1

(* A record checked updateInterval - 1 ms before the operation began is   *)
(* returned as it is, without a fetch.                                    *)
TtlRespectedWitness ==
    \E i \in DOMAIN ops :
        /\ ~ops[i].force /\ ops[i].pc = "resolved"
        /\ ops[i].read.checked = ops[i].now - (86400000 - 1)
        /\ ops[i].result = ops[i].read
        /\ ops[i].fetches = 0

(* C4: with updates enabled no promise of getUpdate is rejected: an       *)
(* operation in which anything threw is fulfilled with the fallback       *)
(* record of its start time, and every call that awaited it resumes with  *)
(* that record.                                                           *)
NeverFails ==
    enabled =>
        /\ \A i \in DOMAIN ops :
              /\ ops[i].pc # "rejected"
              /\ ops[i].error # "" => ops[i].failed
              /\ ops[i].failed
                    => /\ ops[i].pc \in {"resolved", "cleared"}
                       /\ ops[i].result = [checked |-> ops[i].now, version |-> "unknown"]
        /\ \A c \in DOMAIN calls :
              /\ calls[c].pc # "rejected"
              /\ c \in Done /\ ops[calls[c].op].failed
                    => calls[c].result =
                          [checked |-> ops[calls[c].op].now, version |-> "unknown"]

(* Two calls have resumed with the fallback record of a failed operation. *)
NeverFailsWitness ==
    \E c \in Done, d \in Done :
        /\ c # d /\ calls[c].op = calls[d].op
        /\ ops[calls[c].op].failed
        /\ calls[c].result.version = "unknown"
        /\ calls[d].result.version = "unknown"

(* C5: an operation that ends in the fallback record has completed no     *)
(* settings write, and when it settles the store holds what it held when  *)
(* the operation began.                                                   *)
FallbackWritesNothing ==
    \A i \in DOMAIN ops :
        ops[i].failed
        => /\ ops[i].writes = 0
           /\ ops[i].pc = "resolved" => settings = ops[i].before

(* A fetch failed while the store held a record: the record is still there. *)
FallbackWritesNothingWitness ==
    \E i \in DOMAIN ops :
        /\ ops[i].pc = "resolved" /\ ops[i].failed /\ ops[i].fetches = 1
        /\ ops[i].error \in {"transport", "parse"}
        /\ ops[i].before # NoUpdate
        /\ settings = ops[i].before

(* C6: a fetch follows at most 10 redirects and issues at most 11 GETs;   *)
(* it fails with "reached max redirects" exactly on the 11th redirect,    *)
(* after which no GET goes out; a 200 that follows 10 redirects is        *)
(* accepted.                                                              *)
RedirectBound ==
    \A i \in DOMAIN ops :
        LET o == ops[i]
        IN  /\ o.requests <= 11
            /\ o.redirects <= 11
            /\ o.error = "max redirects" <=> o.redirects = 11
            /\ o.error = "max redirects" => o.requests = 11 /\ ~o.accepted
            /\ o.pc \in {"request", "body"} => o.requests = o.redirects + 1
            /\ o.status = 200 => o.accepted /\ o.error \notin {"max redirects", "status"}

(* The 11th GET, after exactly 10 redirects, got a 200 and was accepted. *)
RedirectBoundWitness ==
    \E i \in DOMAIN ops :
        /\ ops[i].redirects = 10 /\ ops[i].requests = 11
        /\ ops[i].status = 200 /\ ops[i].accepted /\ ops[i].pc = "body"

(* C7: a response without a status code, or with one below 200 or from    *)
(* 400 up, fails the fetch with an error that carries the code; one in    *)
(* [200,300) is accepted; a 3xx with a location header is never the       *)
(* accepted response.                                                     *)
StatusClassification ==
    \A i \in DOMAIN ops :
        LET o == ops[i]
        IN  o.status # NoStatus
            => /\ o.status = 0 \/ o.status < 200 \/ o.status >= 400
                  => /\ ~o.accepted /\ o.failed /\ o.error = "status"
                     /\ o.code = IF o.status = 0 THEN 500 ELSE o.status
               /\ o.status >= 200 /\ o.status < 300
                  => o.accepted /\ o.error \notin {"status", "max redirects"}
               /\ o.status >= 300 /\ o.status < 400 /\ o.location => ~o.accepted

(* A 404 has failed the fetch. *)
StatusClassificationWitness ==
    \E i \in DOMAIN ops :
        /\ ops[i].status = 404 /\ ops[i].error = "status" /\ ops[i].code = 404
        /\ ops[i].result.version = "unknown"

(* C8: a 3xx response without a location header fails the fetch: it is    *)
(* never the accepted response.                                           *)
RedirectWithoutLocationFails ==
    \A i \in DOMAIN ops :
        ops[i].status >= 300 /\ ops[i].status < 400 /\ ~ops[i].location
        => ~ops[i].accepted

(* C9: for two strings that parse as versions, isLatestVersion is true    *)
(* exactly when latest is not above current in version order.             *)
ComparatorFollowsVersionOrder ==
    compared.done /\ SemverParse(compared.latest).valid
                  /\ SemverParse(compared.version).valid
    => (compared.isLatest <=>
           SemverCompare(SemverParse(compared.latest), SemverParse(compared.version)) <= 0)

(* C10: a status response whose latest or current version does not parse  *)
(* says isLatest, and no status query ends in an error; so the fallback   *)
(* record is reported as version "unknown" with no update available.      *)
FailsOpen ==
    \A r \in DOMAIN reqs :
        LET a == reqs[r].response
        IN  /\ a # Failed
            /\ enabled /\ a.type \in {"json", "html"}
               => (~SemverParse(a.update.version).valid
                      \/ ~SemverParse(currentVersion).valid
                   => a.isLatest /\ (a.type = "html" => a.text = "No update available"))

(* After a failed check a status query has answered version "unknown",    *)
(* isLatest, for a build whose own version parses.                        *)
FailsOpenWitness ==
    \E r \in DOMAIN reqs :
        /\ reqs[r].response.type = "json"
        /\ reqs[r].response.update.version = "unknown"
        /\ reqs[r].response.isLatest
        /\ currentVersion = "1.2.0"

(* C11: with updates disabled no check operation ever exists (so nothing  *)
(* is requested from the network, read from the settings store or written *)
(* to it), the marker is never set, every call of getUpdate is rejected,  *)
(* and a status query in JSON mode is answered {isLatest: true}.          *)
DisabledTouchesNothing ==
    ~enabled =>
        /\ DOMAIN ops = {}
        /\ update = NoOp
        /\ \A c \in DOMAIN calls : calls[c].pc = "rejected" /\ calls[c].op = NoOp
        /\ \A r \in DOMAIN reqs :
              reqs[r].pc = "done" /\ reqs[r].json => reqs[r].response = DisabledJson

(* Disabled, a /check request in JSON mode has been answered             *)
(* {isLatest: true} and its call of getUpdate(true) was rejected.        *)
DisabledTouchesNothingWitness ==
    /\ ~enabled
    /\ \E r \in DOMAIN reqs :
          /\ reqs[r].base = "/check" /\ reqs[r].json /\ reqs[r].pc = "done"
          /\ reqs[r].response = DisabledJson
          /\ \E c \in DOMAIN calls :
                calls[c].req = r /\ calls[c].from = "check" /\ calls[c].pc = "rejected"

(* C12: with updates disabled a /check request is answered with an error, *)
(* not with a status or a redirect.                                       *)
DisabledCheckRejected ==
    \A r \in DOMAIN reqs :
        ~enabled /\ reqs[r].base = "/check" /\ reqs[r].pc = "done"
        => reqs[r].response.type = "error"

(* C13: the version of the record in the settings store, and of every     *)
(* record a call of getUpdate resumed with, parses as a semantic version  *)
(* or is "unknown"; an operation whose payload did not parse has stored   *)
(* nothing.                                                               *)
VersionIsSemverOrUnknown ==
    /\ settings # NoUpdate
          => SemverParse(settings.version).valid \/ settings.version = "unknown"
    /\ \A c \in Done :
          SemverParse(calls[c].result.version).valid \/ calls[c].result.version = "unknown"
    /\ \A i \in DOMAIN ops : ops[i].error = "parse" => ops[i].writes = 0

(* C14: a non-forced operation whose settings read gave a record returns  *)
(* that record without a fetch exactly when now - checked < TTL, and      *)
(* fetches when now - checked >= TTL.                                     *)
TtlBoundaryExclusive ==
    \A i \in DOMAIN ops :
        LET o == ops[i]
        IN  ~o.force /\ o.read # NoUpdate
                     /\ o.pc \in {"request", "body", "write", "resolved"}
            => IF o.now - o.read.checked < 86400000
               THEN o.fetches = 0 /\ o.requests = 0
               ELSE o.fetches = 1

(* C14, amended: such an operation returns the record without a fetch     *)
(* exactly when now - checked <= TTL, and fetches when now - checked >    *)
(* TTL; a record aged exactly one TTL is still served from the store.     *)
TtlBoundaryInclusive ==
    \A i \in DOMAIN ops :
        LET o == ops[i]
        IN  ~o.force /\ o.read # NoUpdate
                     /\ o.pc \in {"request", "body", "write", "resolved"}
            => IF o.now - o.read.checked <= 86400000
               THEN /\ o.fetches = 0 /\ o.requests = 0
                    /\ o.pc = "resolved" /\ o.result = o.read
               ELSE o.fetches = 1 /\ o.requests >= 1

(* A record checked exactly one TTL before the operation began has been   *)
(* returned without a fetch.                                              *)
TtlBoundaryInclusiveWitness ==
    \E i \in DOMAIN ops :
        /\ ~ops[i].force /\ ops[i].pc = "resolved"
        /\ ops[i].now - ops[i].read.checked = 86400000
        /\ ops[i].result = ops[i].read
        /\ ops[i].fetches = 0

(* What C15 says of the marker itself: an operation whose clearing        *)
(* reaction has run is no longer the marked one, whichever way it ended;  *)
(* a caller resumes only after that; with updates enabled a call made     *)
(* while the marker is clear starts an operation of its own; and if such  *)
(* a call resumed with a fallback record it is the fallback of its own    *)
(* operation.                                                             *)
MarkerClearedFirst ==
    /\ \A i \in DOMAIN ops : ops[i].pc = "cleared" => update # i
    /\ \A c \in DOMAIN calls :
          /\ enabled /\ calls[c].pc # "await"
                => ops[calls[c].op].pc = "cleared" /\ update # calls[c].op
          /\ enabled /\ calls[c].marker = NoOp => calls[c].op = c
    /\ \A c \in Done :
          calls[c].marker = NoOp /\ calls[c].result.version = "unknown"
          => ops[c].failed /\ calls[c].result = Fallback(ops[c].now)

(* C15: the marker is cleared on every exit path before any caller        *)
(* resumes, and a call made while the marker is clear starts an           *)
(* operation that either returns a persisted record within TTL or         *)
(* performs a fetch. A call numbered 2 or more that found the marker      *)
(* clear was made after an earlier operation had settled.                 *)
MarkerClearedThenCachedOrFetched ==
    /\ MarkerClearedFirst
    /\ \A c \in Done :
          c >= 2 /\ calls[c].marker = NoOp
          => \/ /\ ops[c].fetches = 0 /\ ~ops[c].failed
                /\ calls[c].result.checked + 86400000 >= ops[c].now
             \/ ops[c].fetches = 1

(* C15, amended: as above, but the operation such a call starts may also  *)
(* end, without a fetch, in its own fallback record (its settings read    *)
(* failed).                                                               *)
MarkerClearedThenOwnOperation ==
    /\ MarkerClearedFirst
    /\ \A c \in Done :
          calls[c].marker = NoOp
          => \/ /\ ops[c].fetches = 0 /\ ~ops[c].failed
                /\ calls[c].result.checked + 86400000 >= ops[c].now
             \/ ops[c].fetches = 1
             \/ /\ ops[c].fetches = 0 /\ ops[c].failed
                /\ calls[c].result = Fallback(ops[c].now)

(* A second call, made after the operation of the first had settled and   *)
(* the marker was clear, has resumed with the record its own operation    *)
(* fetched.                                                               *)
MarkerClearedThenOwnOperationWitness ==
    \E c \in Done :
        /\ c >= 2 /\ calls[c].marker = NoOp /\ calls[c].op = c
        /\ ops[c].fetches = 1 /\ ~ops[c].failed
        /\ calls[c].result = [checked |-> ops[c].now, version |-> "1.3.0"]

(* C16: an operation completes at most one settings write; it reaches the *)
(* write only with an accepted response whose payload parsed, and what it *)
(* writes is {checked: its start time, version: payload.name}; once the   *)
(* write has completed the operation is fulfilled with the record         *)
(* written, which is what the store holds until a later operation writes, *)
(* and what its callers resume with; an operation that did not fetch      *)
(* writes nothing.                                                        *)
SingleWrite ==
    /\ \A i \in DOMAIN ops :
          LET o == ops[i]
          IN  /\ o.writes <= 1
              /\ o.pc = "write"
                    => /\ o.writes = 0 /\ o.fetches = 1 /\ o.accepted /\ o.error = ""
                       /\ o.update.checked = o.now
                       /\ o.update.version \in PayloadNames
              /\ o.writes = 1
                    => /\ o.fetches = 1 /\ ~o.failed
                       /\ o.pc \in {"resolved", "cleared"}
                       /\ o.result.checked = o.now
                       /\ o.result.version \in PayloadNames
                       /\ (\A j \in DOMAIN ops : j > i => ops[j].writes = 0)
                             => settings = o.result
              /\ o.fetches = 0 => o.writes = 0
    /\ \A c \in Done :
          ops[calls[c].op].writes = 1 => calls[c].result = ops[calls[c].op].result

(* A fetched record has replaced the record the store held, and the       *)
(* operation is fulfilled with it.                                        *)
SingleWriteWitness ==
    \E i \in DOMAIN ops :
        /\ ops[i].pc = "resolved" /\ ops[i].writes = 1
        /\ ops[i].before # NoUpdate
        /\ settings = [checked |-> ops[i].now, version |-> "1.3.0"]
        /\ ops[i].result = settings

(* C17: the record an operation is fulfilled with, and so the record      *)
(* every call that awaited it resumes with, whether the call started the  *)
(* operation or joined it, was checked no more than one updateInterval    *)
(* before the operation began.                                            *)
StalenessBound ==
    /\ \A i \in DOMAIN ops :
          ops[i].pc \in {"resolved", "cleared"}
          => ops[i].result.checked + updateInterval >= ops[i].now
    /\ \A c \in Done :
          /\ calls[c].result = ops[calls[c].op].result
          /\ calls[c].result.checked + updateInterval >= ops[calls[c].op].now

(* A call that joined an operation has resumed with a stored record       *)
(* checked exactly one updateInterval before the operation began.         *)
StalenessBoundWitness ==
    \E c \in Done :
        /\ calls[c].op # c
        /\ calls[c].result.version = "1.2.0"
        /\ calls[c].result.checked + updateInterval = ops[calls[c].op].now

(* The numbers a call of getUpdate can carry. *)
CallIds == 1..MaxCalls

(* C19: when every await settles, every call of getUpdate that is         *)
(* awaiting its promise eventually resumes, and a marker that is set is   *)
(* eventually cleared.                                                    *)
EveryCallResolves ==
    /\ \A c \in CallIds :
          (c \in DOMAIN calls /\ calls[c].pc = "await")
             ~> (c \notin DOMAIN calls \/ calls[c].pc # "await")
    /\ (update # NoOp) ~> (update = NoOp)

(* A call that joined an operation has resumed and the marker is clear. *)
EveryCallResolvesWitness ==
    \E c \in Done :
        /\ calls[c].op # c /\ calls[c].marker = calls[c].op
        /\ ops[calls[c].op].pc = "cleared"
        /\ update = NoOp

(* What a /check request has done, with updates enabled, when it found    *)
(* the marker clear: its call of getUpdate is forced and started an       *)
(* operation, which fetches once; the status query of the same request    *)
(* (JSON mode) joined that operation, and its answer carries the          *)
(* operation's result, a record stamped with the operation's start time;  *)
(* a request with a redirect target is answered with the redirect at      *)
(* once. The two calls of one request are made in the same turn and so    *)
(* carry consecutive numbers.                                             *)
CheckStartsForcedOp ==
    /\ \A c \in DOMAIN calls :
          enabled /\ calls[c].from = "check" /\ calls[c].marker = NoOp
          => /\ calls[c].op = c /\ calls[c].force
             /\ c \in DOMAIN ops /\ ops[c].force /\ ops[c].fetches = 1
             /\ LET d == c + 1
                IN  d \in DOMAIN calls /\ calls[d].from = "root"
                                       /\ calls[d].req = calls[c].req
                   => /\ calls[d].marker = c /\ calls[d].op = c
                      /\ LET r == calls[d].req
                         IN  calls[d].pc = "done" /\ r \in DOMAIN reqs
                                /\ reqs[r].base = "/check" /\ reqs[r].json
                             => /\ reqs[r].pc = "done"
                                /\ reqs[r].response.type = "json"
                                /\ reqs[r].response.update = ops[c].result
                                /\ reqs[r].response.update.checked = ops[c].now
    /\ \A r \in DOMAIN reqs :
          reqs[r].base = "/check" /\ reqs[r].to
          => reqs[r].pc = "done" /\ reqs[r].response = Redirect

(* C18: the /check route starts a forced operation without waiting for    *)
(* it and answers like a status query, which in JSON mode joins that      *)
(* operation (one fetch, the operation's result in the answer); with a    *)
(* redirect target the answer is the redirect, and the operation still    *)
(* runs to its end and the marker is cleared.                             *)
CheckSurface ==
    /\ []CheckStartsForcedOp
    /\ \A c \in CallIds :
          (enabled /\ c \in DOMAIN calls /\ calls[c].from = "check" /\ update = c)
             ~> (update = NoOp /\ c \in DOMAIN ops /\ ops[c].pc = "cleared")

(* A /check request in JSON mode, made while a record was stored, has     *)
(* been answered with the record its forced operation fetched.            *)
CheckSurfaceWitness ==
    \E c \in DOMAIN calls :
        /\ calls[c].from = "check" /\ calls[c].marker = NoOp
        /\ \E d \in Done :
              /\ d = c + 1
              /\ calls[d].from = "root" /\ calls[d].req = calls[c].req
              /\ reqs[calls[d].req].base = "/check"
              /\ reqs[calls[d].req].response.update =
                    [checked |-> ops[c].now, version |-> "1.3.0"]
        /\ ops[c].fetches = 1 /\ ops[c].writes = 1

(* C20: the record in the settings store changes only when the            *)
(* settings.write of an operation whose response was accepted and parsed  *)
(* completes, it becomes the record that operation built, and its checked *)
(* time never decreases.                                                  *)
PersistedCheckedMonotone ==
    [][settings' # settings
          => /\ \E i \in DOMAIN ops :
                   /\ ops[i].pc = "write" /\ ops[i].accepted /\ ~ops[i].failed
                   /\ ops[i].update.checked = ops[i].now
                   /\ settings' = ops[i].update
                   /\ ops'[i].writes = ops[i].writes + 1
             /\ settings'.checked >= settings.checked]_vars

(* A second operation, begun one updateInterval after the first, has      *)
(* replaced the record the first one wrote by a later one.                *)
PersistedCheckedMonotoneWitness ==
    \E i \in DOMAIN ops :
        /\ ops[i].pc = "resolved" /\ ops[i].writes = 1
        /\ ops[i].before.version = "1.3.0"
        /\ settings = ops[i].result
        /\ settings.checked = ops[i].before.checked + updateInterval

====
